---- MODULE Spec2Model ----
(***************************************************************************)
(* A model of the MuSig2 signing ceremony of nak (src/musig2.go).          *)
(*                                                                         *)
(* One invocation of performMusig is one atomic step: a process is started *)
(* by an operator with a secret key, a signer count and the key, nonce and *)
(* partial-signature lists of a resume command (possibly edited by hand),  *)
(* runs to its return, and leaves behind what it wrote to stderr: a secret *)
(* nonce the operator saves, a combined key, a resume command for the next *)
(* peer.  The state between invocations is what the operators hold: the    *)
(* resume commands emitted so far and each operator's saved secret nonces. *)
(*                                                                         *)
(* The btcec/musig2 primitives are modelled by what they decide: a context *)
(* made WithKnownSigners has as many signers as it is given keys (sorted,  *)
(* duplicates allowed), a session starts with its own nonce and counts the *)
(* registered ones against that number, Sign refuses a zero secret nonce   *)
(* or one made for another key, a partial signature is determined by       *)
(* (signer, secret nonce, key set, nonce set, message), and the final      *)
(* signature verifies exactly when the combined partial signatures are     *)
(* those of the context's signers under the session's nonces.              *)
(*                                                                         *)
(* A behaviour is one ceremony: one first invocation, then runs of the     *)
(* command in flight, by any participant, as handed over or miscopied      *)
(* (Spec); HonestSpec is the ceremony by the book, each participant in     *)
(* turn, and the operators keep going until the signature is there.        *)
(***************************************************************************)
EXTENDS Integers, Sequences, FiniteSets, TLC

\* ------------------------------------------------------------------ bounds
MaxNonces == 3        \* fresh nonce pairs generated in one behaviour
MaxKeys == 3          \* longest --musig2-pubkey list of a command that is run
MaxRuns == 6          \* runs of handed-over commands in one behaviour

\* ------------------------------------------------------- program constants
PubNonceSize == 66
SecNonceSize == 97

Signers == {"A", "B", "C"}          \* the secret keys of the participants
NumSignersSet == 2..Cardinality(Signers)   \* the --musig2 <n> an operator passes
NonceIds == 0..MaxNonces            \* 0: the all-zero scalars

\* ---------------------------------------------------------- text and bytes
\* btcec.PrivKeyFromBytes: the public key of a secret key
Pub(sec) == [x |-> sec]
PubKeys == {Pub(s) : s \in Signers}
NoPub == [x |-> "none"]

\* A public nonce (66 bytes, R1 || R2) and a secret nonce (97 bytes,
\* k1 || k2 || public key); GenNonces makes the pair from fresh randomness k.
PubNonce(k) == [r |-> k]
SecNonce(k, p) == [k |-> k, pk |-> p]
GenNonces(k, p) == [SecNonce |-> SecNonce(k, p), PubNonce |-> PubNonce(k)]
NoNonce == SecNonce(0, NoPub)

\* faulty variant: the second scalar is read from the start of the bytes again
secNonceToPubNonce_FirstHalfTwice(sn) == [r |-> sn.k, same |-> TRUE]

\* this function is copied from btcec: the public half of a secret nonce
secNonceToPubNonce(sn) == PubNonce(sn.k)

\* A hex or base64 argument is a record: what it decodes to, and its shape.
BadHexKey == [pk |-> NoPub, form |-> "bad"]
KeyHex(p) == [pk |-> p, form |-> "lc"]
\* the same key as an operator may retype it: uppercase hex, which decodes alike
UpperKeyHex(p) == [pk |-> p, form |-> "uc"]
NonceHex(n) == [n |-> n, len |-> PubNonceSize, form |-> "lc"]
EmptyString == [k |-> 0, pk |-> NoPub, len |-> 0, b64 |-> TRUE]
Base64(sn) == [k |-> sn.k, pk |-> sn.pk, len |-> SecNonceSize, b64 |-> TRUE]
Placeholder == " --musig2-nonce-secret '<their-nonce-secret>'"

\* hex.DecodeString
HexOk(h) == h.form # "bad"

\* --sec, the secret key in hex
SecHex(s) == [sk |-> s, form |-> "lc"]
BadSecHex == [sk |-> "none", form |-> "bad"]

\* copy(secNonce97[:], secNonceB): zero-padded or truncated to 97 bytes
Copy97(b) == SecNonce(IF b.len >= 64 THEN b.k ELSE 0,
                      IF b.len >= SecNonceSize THEN b.pk ELSE NoPub)

Count(s, x) == Cardinality({i \in DOMAIN s : s[i] = x})
\* the key set as the primitives see it: sorted (shouldSort = true), so a bag
KeyBag(ks) == [p \in PubKeys |-> Count(ks, p)]
NonceBag(ns) == [k \in NonceIds |-> Count(ns, PubNonce(k))]

\* A partial signature is determined by its signer, the secret nonce it
\* consumed, the context (key set), the session (nonce set) and the message.
PartialSig(p, k, ks, ns, msg) ==
    [signer |-> p, k |-> k, keys |-> KeyBag(ks), nonces |-> NonceBag(ns), msg |-> msg]
NoPS == [signer |-> NoPub, k |-> 0, keys |-> KeyBag(<<>>), nonces |-> NonceBag(<<>>),
         msg |-> <<>>]
BadHexPS == [ps |-> NoPS, form |-> "bad"]
PSHex(ps) == [ps |-> ps, form |-> "lc"]

EmptySig == [t |-> "empty", keys |-> KeyBag(<<>>), nonces |-> NonceBag(<<>>), msg |-> <<>>]
StaleSig == [t |-> "stale", keys |-> KeyBag(<<>>), nonces |-> NonceBag(<<>>), msg |-> <<>>]
\* hex.EncodeToString(session.FinalSig().Serialize())
FinalSigHex(ks, ns, msg) ==
    [t |-> "sig", keys |-> KeyBag(ks), nonces |-> NonceBag(ns), msg |-> msg]

\* nostr.Event.GetID: the digest of the event's content, not of its Sig
GetID(evt) == <<evt.PubKey, evt.CreatedAt, evt.Kind, evt.Tags, evt.Content>>

\* what the first participant may want signed: -c <content>
Contents == {"gm", "gn"}

TheEvent(sig) ==
    [ID |-> "", PubKey |-> "", CreatedAt |-> 0, Kind |-> 1, Tags |-> <<>>,
     Content |-> "gm", Sig |-> sig]

\* ------------------------------------------------- the resume command
\* eventToCliArgs: kind, timestamp, content and tags; never the signature
eventToCliArgs(evt) ==
    [Kind |-> evt.Kind, CreatedAt |-> evt.CreatedAt, Content |-> evt.Content,
     Tags |-> evt.Tags]

\* signersToCliArgs: one --musig2-pubkey per signer, compressed, lowercase hex
signersToCliArgs(knownSigners) ==
    [i \in 1..Len(knownSigners) |-> KeyHex(knownSigners[i])]

\* noncesToCliArgs: one --musig2-nonce per nonce, lowercase hex
noncesToCliArgs(knownNonces) ==
    [i \in 1..Len(knownNonces) |-> NonceHex(knownNonces[i])]

\* partialSigsToCliArgs: one --musig2-partial per partial signature
partialSigsToCliArgs(knownPartialSigs) ==
    [i \in 1..Len(knownPartialSigs) |-> PSHex(knownPartialSigs[i])]

\* faulty variant: the reminder is printed after every command
printPublicCommandForNextPeer_AlwaysReminds(evt, numSigners, knownSigners, knownNonces, knownPartialSigs, includeNonceSecret) ==
    [t |-> "command",
     n |-> numSigners,
     evt |-> eventToCliArgs(evt),
     keys |-> signersToCliArgs(knownSigners),
     nonces |-> noncesToCliArgs(knownNonces),
     psigs |-> partialSigsToCliArgs(knownPartialSigs),
     secret |-> Placeholder]

printPublicCommandForNextPeer(evt, numSigners, knownSigners, knownNonces, knownPartialSigs, includeNonceSecret) ==
    [t |-> "command",
     n |-> numSigners,
     evt |-> eventToCliArgs(evt),
     keys |-> signersToCliArgs(knownSigners),
     nonces |-> noncesToCliArgs(knownNonces),
     psigs |-> partialSigsToCliArgs(knownPartialSigs),
     secret |-> IF includeNonceSecret THEN Placeholder ELSE ""]

\* the two other messages an invocation writes to stderr
SecretNonceMessage(nonce) == [t |-> "secret-nonce", text |-> Base64(nonce.SecNonce)]

\* faulty variant: the key is aggregated over the keys in their given order
CombinedKeyMessage_Unsorted(knownSigners) == [t |-> "combined-key", key |-> knownSigners]

\* "combined key: %x": mctx.CombinedKey(), of a context that sorts its keys
CombinedKeyMessage(knownSigners) == [t |-> "combined-key", key |-> KeyBag(knownSigners)]

\* ------------------------------------------------ the steps of performMusig
\* the supplied keys, parsed, in their supplied order
ParsedKeys(keys) == [i \in 1..Len(keys) |-> keys[i].pk]

\* includesUs: spub.IsEqual(pubk) for some supplied key
IncludesUs(keys, pubk) == \E i \in 1..Len(keys) : keys[i].pk = pubk

\* knownSigners: the supplied keys, and our own appended if it is not there
KnownSigners(keys, pubk) ==
    IF IncludesUs(keys, pubk) THEN ParsedKeys(keys)
    ELSE Append(ParsedKeys(keys), pubk)

\* faulty variant: a shorter nonce is taken too, and zero-padded by the copy
NonceOk_AtMost66(h) == HexOk(h) /\ h.len <= PubNonceSize

\* a supplied nonce is taken if it is hex of exactly 66 bytes
NonceOk(h) == HexOk(h) /\ h.len = PubNonceSize

\* faulty variant: off by one: the last but one joiner already counts as complete
SignersMissing_OffByOne(knownSigners, numSigners) ==
    Len(knownSigners) + 1 < numSigners

\* "we don't know all the signers yet": len(knownSigners) < numSigners
SignersMissing(knownSigners, numSigners) == Len(knownSigners) < numSigners

\* faulty variant: any run with at least n-1 supplied keys makes a fresh nonce
LastToJoin_AtLeast(keys, numSigners) == Len(keys) >= numSigners - 1

\* "we were the last to include our key": len(keys) == numSigners-1
LastToJoin(keys, numSigners) == Len(keys) = numSigners - 1

\* faulty variant: the secret half is put on the relayed list
SharedNonce_Secret(nonce) == nonce.SecNonce

\* the half of the generated pair that joins the relayed nonce list
SharedNonce(nonce) == nonce.PubNonce

\* faulty variant: the own signature is not counted
SigsMissing_OwnNotCounted(knownPartialSigs, knownSigners) ==
    Len(knownPartialSigs) < Len(knownSigners)

\* "still missing some signatures": len(knownPartialSigs)+1 < len(knownSigners)
SigsMissing(knownPartialSigs, knownSigners) ==
    Len(knownPartialSigs) + 1 < Len(knownSigners)

\* faulty variant: the event's ID is filled in along with its Sig
AttachSig_AndID(evt, sig) == [evt EXCEPT !.Sig = sig, !.ID = "id"]

\* evt.Sig = hex(session.FinalSig())
AttachSig(evt, sig) == [evt EXCEPT !.Sig = sig]

\* faulty variant: the own partial signature is not put on the printed list
IncludeOurs_NotPrinted(knownPartialSigs, partialSig) == knownPartialSigs

\* "we include ours here just so it's printed"
IncludeOurs(knownPartialSigs, partialSig) == Append(knownPartialSigs, partialSig)

\* the nonces the session is given: all but those equal to its own
PeerNonces(knownNonces, own) == SelectSeq(knownNonces, LAMBDA n : n # own)

\* session.RegisterPubNonce, once per peer nonce, in a session of ctxSigners
\* signers that starts with its own nonce: "error" when one more is registered
\* after the set is full, else whether the last registration filled the set.
RegisterAll(peers, ctxSigners) ==
    IF Len(peers) >= ctxSigners THEN "error"
    ELSE IF Len(peers) > 0 /\ Len(peers) + 1 = ctxSigners THEN "ok"
    ELSE "missing"

\* session.Sign: refuses a secret nonce that is zero or made for another key
CanSign(pubk, local) == local.k # 0 /\ local.pk = pubk

\* session.CombineSig over the supplied partial signatures, our own already in
\* the bundle: an error when there are more than the context has signers, or
\* when the final signature does not verify under the combined key.
CombineOk(own, supplied, knownSigners, sessionNonces, msg) ==
    LET all == <<own>> \o supplied IN
    /\ Len(all) = Len(knownSigners)
    /\ \A i \in 1..Len(all) : /\ all[i].keys = KeyBag(knownSigners)
                              /\ all[i].nonces = NonceBag(sessionNonces)
                              /\ all[i].msg = msg
    /\ KeyBag([i \in 1..Len(all) |-> all[i].signer]) = KeyBag(knownSigners)
    /\ NonceBag([i \in 1..Len(all) |-> PubNonce(all[i].k)]) = NonceBag(sessionNonces)

\* ----------------------------------------------------------- performMusig
\* What one invocation returns and leaves behind: signed and err are its
\* result, evt the caller's event afterwards, stderr what it wrote; the other
\* fields record how far it came (the participant set built, whether a session
\* was created, the secret nonce session.Sign consumed, the partial signatures
\* combined, whether it drew fresh randomness, the session's own public nonce).
Returned(evt) ==
    [signed |-> FALSE, err |-> "", evt |-> evt, stderr |-> <<>>,
     knownSigners |-> <<>>, knownNonces |-> <<>>, session |-> FALSE,
     registered |-> <<>>, signedWith |-> NoNonce, combined |-> <<>>,
     generated |-> FALSE, own |-> PubNonce(0)]

\* faulty variant: the error of EarlySessionNonce is looked at after printing
NonceGenerationPhase_PrintsFirst(r, evt, numSigners, knownSigners, knownNonces, pubk, fresh) ==
    LET nonce == GenNonces(fresh, pubk)
        shared == Append(knownNonces, nonce.PubNonce)
    IN [r EXCEPT !.err = "early session nonce",
                 !.generated = TRUE,
                 !.knownNonces = shared,
                 !.stderr = << SecretNonceMessage(nonce),
                               printPublicCommandForNextPeer(evt, numSigners,
                                   knownSigners, shared, <<>>, FALSE) >>]

\* "nonce generation phase -- for sharing": without all the signers, generate
\* a nonce, show its secret half, yield its public half to the next people.
\* fresh: the randomness GenNonces draws.
NonceGenerationPhase(r, evt, numSigners, knownSigners, knownNonces, pubk, fresh) ==
    LET nonce == GenNonces(fresh, pubk)
        shared == Append(knownNonces, SharedNonce(nonce))
    IN [r EXCEPT !.generated = TRUE,
                 !.knownNonces = shared,
                 !.stderr = << SecretNonceMessage(nonce),
                               printPublicCommandForNextPeer(evt, numSigners,
                                   knownSigners, shared, <<>>, FALSE) >>]

\* faulty variant: the supplied secret nonce is used whenever there is one
SessionNonce_SuppliedFirst(last, secNonce, pubk, fresh) ==
    IF last /\ secNonce = EmptyString THEN GenNonces(fresh, pubk).SecNonce
    ELSE Copy97(secNonce)

\* the secret nonce of the session: mctx.NewSession() generates one for the
\* last to join, else WithPreGeneratedNonce takes the 97 bytes supplied
SessionNonce(last, secNonce, pubk, fresh) ==
    IF last THEN GenNonces(fresh, pubk).SecNonce ELSE Copy97(secNonce)

\* faulty variant: the signature is attached, but the run reports signed = false
Complete_ReportsUnsigned(r, evt, sig, sigs) ==
    [r EXCEPT !.combined = sigs, !.evt = AttachSig(evt, sig)]

\* "we have the signature": attach it to the event and return true, nil.
\* sigs: the partial signatures the session combined, its own first.
Complete(r, evt, sig, sigs) ==
    [r EXCEPT !.signed = TRUE, !.combined = sigs, !.evt = AttachSig(evt, sig)]

performMusig(sec, evt, numSigners, keys, nonces, secNonce, partialSigs, fresh) ==
    LET r0 == Returned(evt) IN
    IF ~HexOk(sec) THEN [r0 EXCEPT !.err = "decode secret key"] ELSE
    LET pubk == Pub(sec.sk) IN
    IF \E i \in 1..Len(keys) : ~HexOk(keys[i])
    THEN [r0 EXCEPT !.err = "decode public key"] ELSE
    LET knownSigners == KnownSigners(keys, pubk)
        r1 == [r0 EXCEPT !.knownSigners = knownSigners]
    IN
    IF \E i \in 1..Len(nonces) : ~NonceOk(nonces[i])
    THEN [r1 EXCEPT !.err = "nonce is not 66 bytes"] ELSE
    LET knownNonces == [i \in 1..Len(nonces) |-> nonces[i].n] IN
    IF \E i \in 1..Len(partialSigs) : ~HexOk(partialSigs[i])
    THEN [r1 EXCEPT !.err = "invalid partial signature"] ELSE
    LET knownPartialSigs == [i \in 1..Len(partialSigs) |-> partialSigs[i].ps] IN
    IF SignersMissing(knownSigners, numSigners) THEN
        NonceGenerationPhase(r1, evt, numSigners, knownSigners, knownNonces, pubk, fresh)
    ELSE
    \* we have all the pubkeys, so we can print the combined key
    LET r2 == [r1 EXCEPT !.stderr = << CombinedKeyMessage(knownSigners) >>,
                         !.knownNonces = knownNonces]
        last == LastToJoin(keys, numSigners)
    IN
    IF ~last /\ secNonce = EmptyString
    THEN [r2 EXCEPT !.err = "missing --musig2-nonce-secret value"] ELSE
    IF ~last /\ ~secNonce.b64
    THEN [r2 EXCEPT !.err = "invalid --musig2-nonce-secret"] ELSE
    \* the session: with a fresh nonce, or with the one made from the secret
    LET local == SessionNonce(last, secNonce, pubk, fresh)
        own == secNonceToPubNonce(local)
        allNonces == IF last THEN Append(knownNonces, own) ELSE knownNonces
        peers == PeerNonces(allNonces, own)
        noncesOk == RegisterAll(peers, Len(knownSigners))
        r3 == [r2 EXCEPT !.session = TRUE, !.generated = last,
                         !.knownNonces = allNonces, !.own = own]
    IN
    IF noncesOk = "error"
    THEN [r3 EXCEPT !.err = "failed to register nonce",
                    !.registered = SubSeq(peers, 1, Len(knownSigners) - 1)] ELSE
    LET r4 == [r3 EXCEPT !.registered = peers] IN
    IF noncesOk = "missing"
    THEN [r4 EXCEPT !.err = "at least one nonce is missing"] ELSE
    \* signing phase
    LET msg32 == GetID(evt)
        sessionNonces == <<own>> \o peers
        r5 == [r4 EXCEPT !.signedWith = local]
    IN
    IF ~CanSign(pubk, local)
    THEN [r5 EXCEPT !.err = "failed to produce partial signature"] ELSE
    LET partialSig == PartialSig(pubk, local.k, knownSigners, sessionNonces, msg32) IN
    IF SigsMissing(knownPartialSigs, knownSigners) THEN
        \* still missing some signatures
        [r5 EXCEPT !.stderr = Append(r2.stderr,
                        printPublicCommandForNextPeer(evt, numSigners, knownSigners,
                            allNonces, IncludeOurs(knownPartialSigs, partialSig), TRUE))]
    ELSE
    \* we have all signatures
    IF ~CombineOk(partialSig, knownPartialSigs, knownSigners, sessionNonces, msg32)
    THEN [r5 EXCEPT !.err = "failed to combine partial signature"] ELSE
    Complete(r5, evt, FinalSigHex(knownSigners, sessionNonces, msg32),
             <<partialSig>> \o knownPartialSigs)

\* ------------------------------------------------------------ the ceremony
VARIABLES
    relay,      \* the resume command in flight: the one emitted last
    saved,      \* per operator, the secret nonces it was told to save
    rand,       \* how many fresh nonce pairs were generated
    inv,        \* the arguments of the latest invocation
    out,        \* what the latest invocation returned and left behind
    runs,       \* how many times a handed-over command was run
    used        \* the secret nonces session.Sign has consumed in those runs:
                \* once or more, and more than once

vars == <<relay, saved, rand, inv, out, runs, used>>

\* the command line of a first invocation: nothing known yet
NoCommand(n) ==
    [t |-> "command", n |-> n, evt |-> eventToCliArgs(TheEvent(EmptySig)),
     keys |-> <<>>, nonces |-> <<>>, psigs |-> <<>>, secret |-> ""]

NoInvocation ==
    [how |-> "none", sec |-> BadSecHex, evt |-> TheEvent(EmptySig), n |-> 0,
     keys |-> <<>>, nonces |-> <<>>, secNonce |-> EmptyString, psigs |-> <<>>]

Init ==
    /\ relay = NoCommand(0)
    /\ saved = [s \in Signers |-> {}]
    /\ rand = 0
    /\ inv = NoInvocation
    /\ out = Returned(TheEvent(EmptySig))
    /\ runs = 0
    /\ used = [once |-> {}, more |-> {}]

Messages(stderr, t) == {stderr[i] : i \in {j \in 1..Len(stderr) : stderr[j].t = t}}

\* session.Sign returned a partial signature made with the secret nonce sn
Consumes(r, sn) ==
    r.signedWith = sn /\ sn # NoNonce /\ r.err # "failed to produce partial signature"

\* One run of `nak event --sec <sec> --musig2 <n> ...`: performMusig from its
\* first line to its return.  After a run of a command as it was handed over
\* the operator saves the secret nonce it is shown and hands the resume
\* command, if there is one, on to the next peer; what a run of a miscopied
\* command wrote is looked at (out) and then thrown away.
Invoke(how, s, sec, evt, n, keys, nonces, secNonce, psigs) ==
    /\ Len(keys) <= MaxKeys
    /\ how \in {"start", "resume"} => runs < MaxRuns
    /\ out' = performMusig(sec, evt, n, keys, nonces, secNonce, psigs, rand + 1)
    /\ out'.generated => rand < MaxNonces
    /\ inv' = [how |-> how, sec |-> sec, evt |-> evt, n |-> n, keys |-> keys,
               nonces |-> nonces, secNonce |-> secNonce, psigs |-> psigs]
    /\ IF how \in {"start", "resume"}
       THEN /\ rand' = IF out'.generated THEN rand + 1 ELSE rand
            /\ relay' = IF Messages(out'.stderr, "command") = {} THEN relay
                        ELSE CHOOSE c \in Messages(out'.stderr, "command") : TRUE
            /\ saved' = [saved EXCEPT ![s] =
                    @ \cup {m.text : m \in Messages(out'.stderr, "secret-nonce")}]
            /\ runs' = runs + 1
            /\ used' = IF Consumes(out', out'.signedWith)
                        THEN [once |-> used.once \cup {out'.signedWith},
                              more |-> used.more \cup
                                          (used.once \cap {out'.signedWith})]
                        ELSE used
       ELSE UNCHANGED <<rand, relay, saved, runs, used>>

\* the event the next peer's command line rebuilds: -k, -ts, -c, -t
EventOf(args, sig) ==
    [ID |-> "", PubKey |-> "", CreatedAt |-> args.CreatedAt, Kind |-> args.Kind,
     Tags |-> args.Tags, Content |-> args.Content, Sig |-> sig]

\* the first participant starts the ceremony, for n signers
Start(s, n, content) ==
    /\ relay.n = 0
    /\ Invoke("start", s, SecHex(s), [TheEvent(EmptySig) EXCEPT !.Content = content],
              n, <<>>, <<>>, EmptyString,
              <<>>)

\* a participant runs the resume command as it was handed over, with one of
\* its saved secret nonces or none
Resume(s, sn) ==
    /\ relay.n # 0
    /\ Invoke("resume", s, SecHex(s), EventOf(relay.evt, EmptySig), relay.n,
              relay.keys, relay.nonces, sn, relay.psigs)

\* what an operator may get wrong when copying a command: a field that does
\* not decode (the run fails while parsing, whatever else it was given) ...
Garbles == {"short-nonce", "long-nonce", "bad-nonce", "bad-key", "bad-psig", "bad-sec"}
\* ... a --musig2-nonce-secret that is not the text that was saved ...
SecretGarbles == {"short-secret", "long-secret", "bad-secret"}
\* ... or a well-formed command that is not the one handed over
Edits == {"n", "own-twice", "stale-sig", "upper-key", "swap-keys", "drop-nonce"}

SetLast(seq, v) == [seq EXCEPT ![Len(seq)] = v]

Garbled(s, e, sn) ==
    /\ relay.n # 0
    /\ e \in {"short-nonce", "long-nonce", "bad-nonce"} => Len(relay.nonces) > 0
    /\ e = "bad-key" => Len(relay.keys) > 0
    /\ e = "bad-psig" => Len(relay.psigs) > 0
    /\ Invoke(e, s,
            IF e = "bad-sec" THEN BadSecHex ELSE SecHex(s),
            EventOf(relay.evt, EmptySig), relay.n,
            IF e = "bad-key" THEN SetLast(relay.keys, BadHexKey) ELSE relay.keys,
            CASE e = "short-nonce" ->
                    SetLast(relay.nonces,
                            [relay.nonces[Len(relay.nonces)] EXCEPT !.len = @ - 1])
              [] e = "long-nonce" ->
                    [relay.nonces EXCEPT ![1] = [@ EXCEPT !.len = @ + 1]]
              [] e = "bad-nonce" ->
                    SetLast(relay.nonces,
                            [relay.nonces[Len(relay.nonces)] EXCEPT !.form = "bad"])
              [] OTHER -> relay.nonces,
            sn,
            IF e = "bad-psig" THEN SetLast(relay.psigs, BadHexPS) ELSE relay.psigs)

\* the saved text with its last character lost, with one too many, or with a
\* character that is not base64
GarbledSecret(s, e, sn) ==
    /\ relay.n # 0
    /\ e # "bad-secret" => sn # EmptyString
    /\ Invoke(e, s, SecHex(s), EventOf(relay.evt, EmptySig), relay.n, relay.keys,
              relay.nonces,
              CASE e = "short-secret" -> [sn EXCEPT !.len = @ - 1]
                [] e = "long-secret" -> [sn EXCEPT !.len = @ + 1]
                [] OTHER -> [sn EXCEPT !.b64 = FALSE],
              relay.psigs)

Edited(s, e, n, sn) ==
    LET c == IF relay.n = 0 THEN NoCommand(n) ELSE relay IN
    /\ (e = "n") = (n # c.n)
    /\ e = "upper-key" => Len(c.keys) > 0
    /\ e = "swap-keys" => Len(c.keys) > 1
    /\ e = "drop-nonce" => Len(c.nonces) > 0
    /\ Invoke(e, s, SecHex(s),
            EventOf(c.evt, IF e = "stale-sig" THEN StaleSig ELSE EmptySig), n,
            CASE e = "own-twice" -> c.keys \o <<KeyHex(Pub(s)), KeyHex(Pub(s))>>
              [] e = "upper-key" -> [c.keys EXCEPT ![1] = UpperKeyHex(@.pk)]
              [] e = "swap-keys" -> <<c.keys[2], c.keys[1]>> \o SubSeq(c.keys, 3, Len(c.keys))
              [] OTHER -> c.keys,
            IF e = "drop-nonce" THEN Tail(c.nonces) ELSE c.nonces,
            sn, c.psigs)

Next ==
    \/ \E s \in Signers, n \in NumSignersSet, c \in Contents : Start(s, n, c)
    \/ \E s \in Signers : \E sn \in {EmptyString} \cup saved[s] : Resume(s, sn)
    \/ \E s \in Signers, e \in Garbles :
          \E sn \in {EmptyString} \cup saved[s] : Garbled(s, e, sn)
    \/ \E s \in Signers, e \in SecretGarbles :
          \E sn \in {EmptyString} \cup saved[s] : GarbledSecret(s, e, sn)
    \/ \E s \in Signers, e \in Edits, n \in NumSignersSet :
          \E sn \in {EmptyString} \cup saved[s] : Edited(s, e, n, sn)

Spec == Init /\ [][Next]_vars

\* ------------------------------------------------------------- properties
\* what the latest invocation was given and what it wrote
Ran == inv.how # "none"
Parsed ==
    /\ Ran
    /\ inv.sec.form # "bad"
    /\ \A i \in 1..Len(inv.keys) : inv.keys[i].form # "bad"
    /\ \A i \in 1..Len(inv.nonces) :
          inv.nonces[i].form # "bad" /\ inv.nonces[i].len = PubNonceSize
    /\ \A i \in 1..Len(inv.psigs) : inv.psigs[i].form # "bad"
OwnKey == [x |-> inv.sec.sk]
OwnKeySupplied == \E i \in 1..Len(inv.keys) : inv.keys[i].pk = OwnKey
CommandsWritten == {out.stderr[i] : i \in {j \in 1..Len(out.stderr) :
                                              out.stderr[j].t = "command"}}
SecretsWritten == {out.stderr[i] : i \in {j \in 1..Len(out.stderr) :
                                             out.stderr[j].t = "secret-nonce"}}
SigUntouched == out.evt.Sig = inv.evt.Sig

\* B's run in the ceremony of two: A's key and nonce, nothing else
SecondOfTwo ==
    /\ Parsed /\ inv.how = "resume" /\ inv.n = 2
    /\ Len(inv.keys) = 1 /\ ~OwnKeySupplied
    /\ Len(inv.nonces) = 1
    /\ inv.secNonce = EmptyString /\ inv.psigs = <<>>

\* A's second run in the ceremony of two: the command B emitted, and the
\* secret nonce A saved in its first run
ThirdOfTwo ==
    /\ Parsed /\ inv.how = "resume" /\ inv.n = 2
    /\ Len(inv.keys) = 2 /\ inv.keys[1].pk = OwnKey /\ inv.keys[2].pk # OwnKey
    /\ Len(inv.nonces) = 2 /\ Len(inv.psigs) = 1
    /\ inv.secNonce # EmptyString
    /\ inv.nonces[1].n = [r |-> inv.secNonce.k]

\* C1 (as claimed): in the ceremony of two, B's run with A's key and nonce
\* returns signed = true and attaches the final signature.
C1_SecondSignerCompletes ==
    SecondOfTwo => out.signed /\ out.evt.Sig.t = "sig"

\* C1 (amended): in the ceremony of two, B's run with A's key and nonce returns
\* signed = false without error, attaches nothing and emits a resume command
\* with 2 keys, 2 nonces, 1 partial signature and the secret-nonce placeholder;
\* A's run of that command with its saved secret nonce returns signed = true
\* and attaches the final signature.
C1_ThirdRunCompletes ==
    /\ SecondOfTwo =>
          /\ ~out.signed /\ out.err = "" /\ SigUntouched
          /\ \E c \in CommandsWritten :
                /\ CommandsWritten = {c}
                /\ Len(c.keys) = 2 /\ Len(c.nonces) = 2 /\ Len(c.psigs) = 1
                /\ c.secret = Placeholder
    /\ ThirdOfTwo =>
          /\ out.signed /\ out.err = "" /\ out.evt.Sig.t = "sig"
          /\ CommandsWritten = {}

C1_Witness == ThirdOfTwo /\ out.signed

\* C2: a key-gathering run (own key absent, k keys and k nonces supplied,
\* k+1 < n) returns signed = false without error and emits exactly one resume
\* command, with k+1 keys, k+1 nonces, no partial signature, no placeholder.
C2_KeyGatheringCommand ==
    ( /\ Parsed /\ ~OwnKeySupplied
      /\ Len(inv.keys) = Len(inv.nonces)
      /\ Len(inv.keys) + 1 < inv.n )
    => /\ ~out.signed /\ out.err = ""
       /\ \E c \in CommandsWritten :
             /\ CommandsWritten = {c}
             /\ Len(c.keys) = Len(inv.keys) + 1
             /\ Len(c.nonces) = Len(inv.keys) + 1
             /\ Len(c.psigs) = 0
             /\ c.secret = ""

C2_Witness ==
    /\ inv.how = "start" /\ inv.n = 2 /\ Len(inv.keys) = 0
    /\ \E c \in CommandsWritten : Len(c.keys) = 1 /\ Len(c.nonces) = 1

\* C3: a run returns signed = true only with exactly n keys in the participant
\* set, exactly n public nonces known and exactly n partial signatures combined.
C3_SignedOnlyWithExactlyN ==
    out.signed => /\ Len(out.knownSigners) = inv.n
                  /\ Len(out.knownNonces) = inv.n
                  /\ Len(out.combined) = inv.n

\* C4: no resume command holds a secret nonce or a secret key: its key fields
\* are public keys, its nonce fields 66-byte public nonces, and its
\* secret-nonce argument is absent or the fixed placeholder; a generated secret
\* nonce is written in its own message only.
SecretNoncesKnown ==
    {Copy97(t) : t \in UNION {saved[s] : s \in Signers}}
        \cup {Copy97(m.text) : m \in SecretsWritten}
        \cup {out.signedWith}
C4_NoSecretInCommand ==
    \A c \in CommandsWritten \cup {relay} :
        /\ c.secret \in {"", Placeholder}
        /\ \A i \in 1..Len(c.keys) :
              c.keys[i].pk \in PubKeys /\ c.keys[i] # inv.sec
        /\ \A i \in 1..Len(c.nonces) :
              /\ c.nonces[i].len = PubNonceSize
              /\ c.nonces[i].n \in {[r |-> k] : k \in NonceIds}
              /\ c.nonces[i].n \notin SecretNoncesKnown
        /\ \A i \in 1..Len(c.psigs) : c.psigs[i].ps \notin SecretNoncesKnown

C4_Witness ==
    /\ SecretsWritten # {} /\ CommandsWritten # {}
    /\ \E s \in Signers : saved[s] # {}

\* C5: a run changes nothing of the event but Sig, and Sig only when it
\* returns signed = true.
C5_OnlySigOnlyWhenSigned ==
    Ran => /\ [out.evt EXCEPT !.Sig = inv.evt.Sig] = inv.evt
           /\ ~out.signed => out.evt = inv.evt

C5_Witness ==
    /\ out.signed /\ inv.evt.Sig = StaleSig /\ out.evt.Sig.t = "sig"

\* the participant set of the latest run, counted from its arguments alone
KeysAfterSelfInsertion == Len(inv.keys) + (IF OwnKeySupplied THEN 0 ELSE 1)

\* the run came to the signing path that needs the saved secret nonce: all n
\* keys known, and not the run whose own key completed the set
NeedsSecretNonce ==
    /\ Parsed
    /\ KeysAfterSelfInsertion >= inv.n
    /\ ~(~OwnKeySupplied /\ Len(inv.keys) = inv.n - 1)

\* C6: a run that needs the saved secret nonce and is given none fails with
\* the missing-secret error before a session is created and before anything is
\* signed, and leaves the event's signature as it was.
C6_MissingSecretFailsFirst ==
    (NeedsSecretNonce /\ inv.secNonce = EmptyString)
    => /\ out.err = "missing --musig2-nonce-secret value"
       /\ ~out.signed /\ ~out.session
       /\ out.signedWith = NoNonce /\ out.combined = <<>>
       /\ CommandsWritten = {}
       /\ SigUntouched

C6_Witness ==
    /\ NeedsSecretNonce /\ inv.secNonce = EmptyString
    /\ KeysAfterSelfInsertion = inv.n /\ OwnKeySupplied
    /\ out.err # ""

\* a supplied nonce that is hex, but not of 66 bytes
WrongLengthNonce ==
    \E i \in 1..Len(inv.nonces) :
        inv.nonces[i].form # "bad" /\ inv.nonces[i].len # PubNonceSize

\* C7: a run given a public nonce of a length other than 66 bytes returns an
\* error with signed = false, writes no resume command and no secret nonce,
\* and leaves the event's signature as it was.
C7_WrongNonceLengthFails ==
    (Ran /\ WrongLengthNonce)
    => /\ out.err # "" /\ ~out.signed
       /\ CommandsWritten = {} /\ SecretsWritten = {}
       /\ SigUntouched

\* a 65-byte nonce, in a run that would have signed with its saved secret nonce
C7_Witness ==
    /\ WrongLengthNonce /\ out.err = "nonce is not 66 bytes"
    /\ \E i \in 1..Len(inv.nonces) : inv.nonces[i].len = PubNonceSize - 1
    /\ inv.secNonce # EmptyString /\ KeysAfterSelfInsertion = inv.n

\* C8 (as claimed): a run that returns an error has written nothing at all.
C8_ErrorWritesNothing ==
    out.err # "" => out.stderr = <<>>

\* C8 (amended): a run that returns an error has written no secret nonce and
\* no resume command; all it may have written is the combined-key line, which
\* is printed as soon as all the keys are known, before the session is made.
C8_ErrorWritesAtMostCombinedKey ==
    out.err # "" =>
        /\ CommandsWritten = {} /\ SecretsWritten = {}
        /\ \A i \in 1..Len(out.stderr) : out.stderr[i].t = "combined-key"
        /\ Len(out.stderr) <= 1
        /\ out.stderr # <<>> => KeysAfterSelfInsertion >= inv.n

C8_Witness ==
    /\ out.err = "failed to combine partial signature"
    /\ Len(out.stderr) = 1

\* C9: after any sequence of runs of the commands handed over, also one where
\* a participant runs a command that already holds n keys, none its own, the
\* participant set a run builds and the key list of every resume command
\* never hold more than n keys.
C9_AtMostNKeys ==
    inv.how \in {"start", "resume"} =>
        /\ Len(out.knownSigners) <= inv.n
        /\ \A c \in CommandsWritten \cup {relay} : Len(c.keys) <= c.n

\* C10: after self-insertion the own public key is in the participant set
\* exactly once: appended at the end, after the supplied keys in their order,
\* when absent; not appended when present; never twice.
C10_OwnKeyExactlyOnce ==
    (Parsed \/ out.knownSigners # <<>>) =>
        /\ Cardinality({i \in 1..Len(out.knownSigners) :
                            out.knownSigners[i] = OwnKey}) = 1
        /\ \A i \in 1..Len(inv.keys) : out.knownSigners[i] = inv.keys[i].pk
        /\ Len(out.knownSigners) = KeysAfterSelfInsertion
        /\ ~OwnKeySupplied => out.knownSigners[Len(out.knownSigners)] = OwnKey


\* ---- phases, counted as the phase classifier counts them
\* the phase a command line is in: 0 key gathering (fewer than n keys),
\* 1 nonce gathering (all keys, fewer than n nonces), 2 signing
PhaseOfCounts(nKeys, nNonces, n) ==
    IF nKeys < n THEN 0 ELSE IF nNonces < n THEN 1 ELSE 2
PhaseIn == PhaseOfCounts(Len(inv.keys), Len(inv.nonces), inv.n)
\* the phase the latest run left the ceremony in: 3 is complete
PhaseOut ==
    IF out.signed THEN 3
    ELSE IF CommandsWritten = {} THEN PhaseIn
    ELSE LET c == CHOOSE c \in CommandsWritten : TRUE
         IN PhaseOfCounts(Len(c.keys), Len(c.nonces), c.n)

\* the run whose own key completes the set
LastJoinerRun == Parsed /\ ~OwnKeySupplied /\ Len(inv.keys) = inv.n - 1

\* C11 (as claimed): the run whose key completes the set finalizes its nonce
\* but does not contribute a partial signature and does not complete the
\* ceremony.
C11_LastJoinerDoesNotSign ==
    (LastJoinerRun /\ out.err = "") =>
        /\ out.signedWith = NoNonce
        /\ ~out.signed
        /\ \A c \in CommandsWritten : Len(c.psigs) <= Len(inv.psigs)

\* C11 (amended): a run of a command as it was emitted that does not fail
\* advances the ceremony by at most one phase, except the run whose key
\* completes the set, which goes from key gathering to signing in one step: it
\* generates its nonce and also computes its partial signature, returns
\* signed = false and emits one resume command with n keys, one more nonce and
\* one more partial signature than supplied, and the secret-nonce placeholder;
\* it never completes the ceremony.
C11_LastJoinerAlsoSigns ==
    (Ran /\ out.err = "") =>
        /\ (inv.how \in {"start", "resume"} /\ ~LastJoinerRun) =>
              PhaseOut - PhaseIn <= 1
        /\ LastJoinerRun =>
              /\ PhaseIn = 0 /\ PhaseOut = 2
              /\ out.generated /\ out.signedWith # NoNonce
              /\ ~out.signed /\ SigUntouched
              /\ \E c \in CommandsWritten :
                    /\ CommandsWritten = {c}
                    /\ Len(c.keys) = inv.n
                    /\ Len(c.nonces) = Len(inv.nonces) + 1
                    /\ Len(c.psigs) = Len(inv.psigs) + 1
                    /\ c.secret = Placeholder

\* C, the last of three to join, signs in the run that completes the key set
C11_Witness ==
    /\ LastJoinerRun /\ inv.how = "resume" /\ inv.n = 3 /\ out.err = ""
    /\ out.signedWith # NoNonce
    /\ \E c \in CommandsWritten : Len(c.psigs) = 1 /\ Len(c.keys) = 3

\* how many resume commands the latest run wrote
CommandCount == Cardinality({j \in 1..Len(out.stderr) : out.stderr[j].t = "command"})

\* C12: a run that does not fail ends in exactly one of two ways: signed =
\* false, one resume command written and the event's signature left as it
\* was, or signed = true, no resume command written and the final signature
\* attached to the event; a run that fails writes no resume command.
C12_ExactlyOneOutcome ==
    Ran =>
        IF out.err = ""
        THEN \/ ~out.signed /\ CommandCount = 1 /\ SigUntouched
             \/ out.signed /\ CommandCount = 0 /\ out.evt.Sig.t = "sig"
        ELSE ~out.signed /\ CommandCount = 0 /\ SigUntouched

\* the last run of three signed, with a stale signature in the event it was
\* given
C12_Witness ==
    /\ out.err = "" /\ out.signed /\ CommandCount = 0
    /\ inv.n = 3 /\ inv.evt.Sig = StaleSig /\ out.evt.Sig # StaleSig

\* the supplied lists, decoded, and the lists a resume command holds, decoded
SuppliedKeys == [i \in 1..Len(inv.keys) |-> inv.keys[i].pk]
SuppliedNonces == [i \in 1..Len(inv.nonces) |-> inv.nonces[i].n]
SuppliedPartialSigs == [i \in 1..Len(inv.psigs) |-> inv.psigs[i].ps]
KeysIn(c) == [i \in 1..Len(c.keys) |-> c.keys[i].pk]
NoncesIn(c) == [i \in 1..Len(c.nonces) |-> c.nonces[i].n]
PartialSigsIn(c) == [i \in 1..Len(c.psigs) |-> c.psigs[i].ps]
IsOwnPartialSig(ps) == ps.signer = OwnKey /\ ps.k = out.signedWith.k

\* C13: the lists a resume command holds decode to the lists the run that
\* wrote it held, element for element; and each of them is the supplied list in
\* its order with the local contribution at the end (the own key if it was
\* absent, the own nonce if the run generated one, the own partial signature
\* if the run signed), nothing removed and nothing reordered.
C13_RoundTripAndAppendOnly ==
    (Parsed /\ out.err = "") =>
        \A c \in CommandsWritten :
            /\ KeysIn(c) = out.knownSigners
            /\ NoncesIn(c) = out.knownNonces
            /\ \A i \in 1..Len(c.keys) : c.keys[i].form = "lc"
            /\ \A i \in 1..Len(c.nonces) :
                  c.nonces[i].form = "lc" /\ c.nonces[i].len = PubNonceSize
            /\ \A i \in 1..Len(c.psigs) : c.psigs[i].form = "lc"
            /\ KeysIn(c) = IF OwnKeySupplied THEN SuppliedKeys
                           ELSE Append(SuppliedKeys, OwnKey)
            /\ IF out.generated
               THEN /\ Len(c.nonces) = Len(inv.nonces) + 1
                    /\ SubSeq(NoncesIn(c), 1, Len(inv.nonces)) = SuppliedNonces
               ELSE NoncesIn(c) = SuppliedNonces
            /\ IF out.signedWith # NoNonce
               THEN /\ Len(c.psigs) = Len(inv.psigs) + 1
                    /\ SubSeq(PartialSigsIn(c), 1, Len(inv.psigs)) = SuppliedPartialSigs
                    /\ IsOwnPartialSig(c.psigs[Len(c.psigs)].ps)
               ELSE PartialSigsIn(c) = SuppliedPartialSigs

\* the combined key a run wrote, if it wrote one
CombinedKeysWritten(r) ==
    {r.stderr[i].key : i \in {j \in 1..Len(r.stderr) : r.stderr[j].t = "combined-key"}}
\* two participant sets that hold the same keys, each as often, in another order
SameKeysOtherOrder(ks1, ks2) ==
    /\ ks1 # ks2
    /\ Len(ks1) = Len(ks2)
    /\ \A p \in PubKeys : Cardinality({i \in 1..Len(ks1) : ks1[i] = p})
                            = Cardinality({i \in 1..Len(ks2) : ks2[i] = p})

MalformedSecretNonce ==
    /\ inv.secNonce # EmptyString
    /\ ~inv.secNonce.b64 \/ inv.secNonce.len # SecNonceSize

\* C15: a run that is given a malformed secret nonce (not base64, or not of
\* 97 bytes) fails with the error of the secret-nonce argument, in whatever
\* phase the command is, without creating a session, without signing and
\* without changing the event.
C15_MalformedSecretNonceFails ==
    (Parsed /\ MalformedSecretNonce) =>
        /\ out.err = "invalid --musig2-nonce-secret"
        /\ ~out.signed
        /\ ~out.session
        /\ out.signedWith = NoNonce
        /\ out.evt = inv.evt

\* C16: in the runs of the commands handed over in one ceremony, a re-run of a
\* command included, no secret nonce is consumed by session.Sign more than
\* once.
C16_SecretNonceSingleUse ==
    used.more = {}

\* all n keys are known to the latest run, after self-insertion
AllKeysKnown == Parsed /\ KeysAfterSelfInsertion >= inv.n

\* C17: of the runs that know all n keys, exactly the one whose own key
\* completes the set (own key absent, n-1 keys supplied) generates a fresh
\* nonce, whether or not it is given a secret nonce; every other one fails
\* when it is given no secret nonce, and otherwise makes its session from the
\* supplied secret nonce, its own public nonce being the public half of it.
C17_LastJoinerClassification ==
    AllKeysKnown =>
        /\ out.generated <=> LastJoinerRun
        /\ LastJoinerRun =>
              /\ out.session
              /\ out.err \notin {"missing --musig2-nonce-secret value",
                                 "invalid --musig2-nonce-secret"}
              /\ out.own \notin {[r |-> inv.nonces[i].n.r] : i \in 1..Len(inv.nonces)}
              /\ out.own # [r |-> inv.secNonce.k]
        /\ ~LastJoinerRun =>
              /\ inv.secNonce = EmptyString
                    => out.err = "missing --musig2-nonce-secret value" /\ ~out.session
              /\ out.session =>
                    /\ inv.secNonce # EmptyString
                    /\ out.own = [r |-> IF inv.secNonce.len >= 64
                                        THEN inv.secNonce.k ELSE 0]
                    /\ out.signedWith # NoNonce => out.signedWith.k = out.own.r

\* both kinds seen in a ceremony of three: the run below is the first
\* participant's, with its saved secret nonce, on the last joiner's command
C17_Witness ==
    /\ AllKeysKnown /\ ~LastJoinerRun /\ inv.how = "resume" /\ inv.n = 3
    /\ out.session /\ out.err = "" /\ ~out.generated
    /\ out.own = [r |-> inv.secNonce.k]
    /\ Len(inv.psigs) = 1

\* the run of the command in flight, as it was handed over, is the step taken
ResumeStep == inv'.how = "resume" /\ runs' = runs + 1

\* C18: a resume command carries the secret-nonce placeholder exactly when
\* whoever runs it next has to supply a secret nonce: a command written in key
\* gathering (fewer than n keys after self-insertion) never carries it, a
\* command written in the signing phase always does; no run of a command
\* without the placeholder fails for want of a secret nonce, and every run of
\* a command with the placeholder, given none, does.
C18_PlaceholderIffSecretNeeded ==
    [][ /\ \A i \in 1..Len(out'.stderr) :
              out'.stderr[i].t = "command" =>
                  /\ Len(out'.knownSigners) < inv'.n => out'.stderr[i].secret = ""
                  /\ Len(out'.knownSigners) >= inv'.n
                        => out'.stderr[i].secret = Placeholder
                  /\ out'.signedWith # NoNonce => out'.stderr[i].secret = Placeholder
        /\ ResumeStep =>
              /\ relay.secret = ""
                    => out'.err # "missing --musig2-nonce-secret value"
              /\ (relay.secret = Placeholder /\ inv'.secNonce = EmptyString)
                    => out'.err = "missing --musig2-nonce-secret value"
      ]_vars

\* the last to join ran a command without the placeholder, gave no secret
\* nonce, and wrote a command with the placeholder
C18_Witness ==
    /\ inv.how = "resume" /\ LastJoinerRun /\ inv.secNonce = EmptyString
    /\ out.err = ""
    /\ relay \in CommandsWritten /\ relay.secret = Placeholder
    /\ Len(relay.psigs) = 1

\* the session's own public nonce was among the nonces supplied
OwnNonceSupplied == \E i \in 1..Len(inv.nonces) : inv.nonces[i].n = out.own
\* the supplied nonces other than the session's own, in their order
SuppliedPeerNonces ==
    LET idx == {i \in 1..Len(inv.nonces) : inv.nonces[i].n # out.own}
        nth[j \in 0..Len(inv.nonces)] ==
            IF j = 0 THEN <<>>
            ELSE IF j \in idx THEN Append(nth[j - 1], inv.nonces[j].n)
            ELSE nth[j - 1]
    IN nth[Len(inv.nonces)]

\* C19: a run that knows all the keys (here: exactly n of them) and has made
\* its session registers each known nonce other than its own once and skips
\* every entry equal to its own; it computes a partial signature only if
\* exactly n-1 peer nonces were registered; and a run whose own public nonce,
\* derived from the supplied secret nonce, is not among the supplied nonces
\* fails without signing and without writing a resume command.
C19_NonceRegistration ==
    (AllKeysKnown /\ Len(out.knownSigners) = inv.n /\ out.session) =>
        /\ out.err # "failed to register nonce" => out.registered = SuppliedPeerNonces
        /\ out.signedWith # NoNonce => Len(out.registered) = inv.n - 1
        /\ Len(SuppliedPeerNonces) < inv.n - 1 =>
              out.err # "" /\ out.signedWith = NoNonce /\ CommandsWritten = {}
        /\ (~out.generated /\ ~OwnNonceSupplied) =>
              out.err # "" /\ out.signedWith = NoNonce /\ CommandsWritten = {}
        /\ out.err \in {"failed to register nonce", "at least one nonce is missing"} =>
              out.signedWith = NoNonce /\ CommandsWritten = {} /\ ~out.signed

\* ------------------------------------------------- the ceremony by the book
\* Each participant in turn runs the command the previous run wrote: first
\* each one once, to add its key, then each one but the last to join once
\* more, with the secret nonce it saved.
Joined == {relay.keys[i].pk : i \in 1..Len(relay.keys)}
HasSigned == {relay.psigs[i].ps.signer : i \in 1..Len(relay.psigs)}

HonestStart(s, n, content) == Start(s, n, content)

HonestJoin(s) ==
    /\ relay.n # 0
    /\ Len(relay.keys) < relay.n
    /\ Pub(s) \notin Joined
    /\ Resume(s, EmptyString)

HonestSign(s) ==
    /\ relay.n # 0
    /\ Len(relay.keys) = relay.n
    /\ ~out.signed
    /\ Pub(s) \in Joined \ HasSigned
    /\ \E sn \in saved[s] : Resume(s, sn)

HonestNext ==
    \/ \E s \in Signers, n \in NumSignersSet, c \in Contents : HonestStart(s, n, c)
    \/ \E s \in Signers : HonestJoin(s)
    \/ \E s \in Signers : HonestSign(s)

\* the operators keep going: a command that was handed over is run
HonestSpec == Init /\ [][HonestNext]_vars /\ WF_vars(HonestNext)

\* the last to add its key: the owner of the n-th key of the latest command
LastKeyJoiner == relay.keys[relay.n].pk

\* C20: in the ceremony by the book, for n >= 2 distinct participants, every
\* run succeeds; no run returns signed = true before the (2n-1)-th, the
\* (2n-1)-th does, and it is made by a participant other than the last to add
\* its key; and that run is eventually reached.
C20_HonestCeremonyCompletes ==
    /\ [](Ran => out.err = "")
    /\ [](Ran => runs <= 2 * inv.n - 1)
    /\ [](Ran => (out.signed <=> runs = 2 * inv.n - 1))
    /\ [](out.signed => /\ Len(relay.keys) = inv.n
                        /\ Cardinality(Joined) = inv.n
                        /\ OwnKey # LastKeyJoiner)
    /\ <>(Ran /\ out.signed)

\* the fifth run of a ceremony of three returned signed = true
C20_Witness ==
    /\ out.signed /\ inv.n = 3 /\ runs = 5
    /\ OwnKey # LastKeyJoiner
    /\ out.evt.Sig.t = "sig"
====
